---- MODULE Spec2Model ----
(***************************************************************************)
(* A state-machine model of src/attention.py: the batch sampler, the loss  *)
(* estimator, the attention head, the transformer block, the language      *)
(* model's forward pass and generation loop, and the training loop.        *)
(*                                                                         *)
(* Tensors of symbol codes are sequences of rows (one row per batch        *)
(* element); tensors of activations are modelled by their shape, except in *)
(* the attention head, whose arithmetic is carried out on integers.        *)
(***************************************************************************)
EXTENDS Integers, Sequences, FiniteSets, TLC

(***************************************************************************)
(* Hyperparameters (src/attention.py lines 8-15), scaled down.             *)
(***************************************************************************)
batch_size == 2
block_size == 2
max_iters == 3
n_embd == 4

(* Ranges of the inputs the specifications enumerate. *)
MaxEvalInterval == 2
MaxEvalIters == 2
MaxSeedLen == 3
MaxNewTokens == 3
GenBatch == 1
MaxHeads == 5
MaxHeadSize == 2
RngMod == 16

(* The alphabet of symbol codes: chars = sorted(set(text)), codes 0..V-1. *)
Vocab == {0, 1}
vocab_size == Cardinality(Vocab)

(* Python's None; an absent tensor. *)
None == <<>>

Min(a, b) == IF a < b THEN a ELSE b
Max(a, b) == IF a > b THEN a ELSE b

(***************************************************************************)
(* Python slicing s[start:stop] of a sequence (0-based, half open): a      *)
(* negative index counts from the end, and both ends are clamped to the    *)
(* sequence, so a slice never fails but may come out short.                *)
(***************************************************************************)
PyIndex(len, i) == IF i < 0 THEN Max(len + i, 0) ELSE Min(i, len)

PySlice(s, start, stop) == SubSeq(s, PyIndex(Len(s), start) + 1, PyIndex(Len(s), stop))

(* s[start:] *)
PySliceFrom(s, start) == SubSeq(s, PyIndex(Len(s), start) + 1, Len(s))

(* All sequences over S of length len: the rows of an index tensor. *)
SeqsOfLen(S, len) == [1..len -> S]

VARIABLES
    (* BigramLanguageModel: module state *)
    training,           \* nn.Module.training: TRUE in train mode, FALSE in eval mode
    params,             \* the parameter tensors: the gradients applied so far, in order
    grad,               \* the .grad fields: the back-propagations accumulated in them
    (* the global random generator *)
    rng,
    (* generate *)
    seed,               \* the idx argument as passed in
    idx,                \* the running context
    max_new_tokens,
    gen_i,              \* iterations of the loop completed
    idx_cond,           \* the window last passed to the forward pass
    gen_T,              \* the sequence length the forward pass last saw
    gen_ret,            \* the returned tensor
    gen_pc,
    (* the script: corpus, hyperparameters that vary between runs, training loop *)
    data,               \* the encoded corpus (line 36)
    eval_interval,
    eval_iters,
    pc,                 \* position of the script
    iter,               \* the loop variable of line 194
    xb, yb,             \* the training batch (line 202)
    logits, loss,       \* the result of the training forward pass (line 205)
    grad_enabled,       \* FALSE inside @torch.no_grad()
    split, k, losses, out,   \* locals of estimate_loss
    eval_out,           \* the global "losses" of line 198
    records,            \* the evaluation records printed so far (line 199)
    trace,              \* the calls made since the head of the current iteration
    (* two executions of the script under one seed *)
    run,                \* 1: first execution, 2: second execution
    seed0,              \* the generator state both executions start from
    first_cfg,          \* eval_interval and eval_iters of the first execution
    first_params,       \* the parameter updates of the first execution
    (* one call of BigramLanguageModel.forward *)
    fw_idx, fw_targets, fw_out, fw_pc,
    (* one Head applied to an input and to a variant of it *)
    hd_head_size,       \* the constructor argument
    hd_key, hd_query, hd_value,   \* the weights of the three linear maps
    hd_x1, hd_x2,       \* the input, and an input that agrees with it up to hd_t
    hd_t,
    hd_res1, hd_res2,   \* attention weights and output for hd_x1 and for hd_x2
    hd_pc,
    (* one Block constructed and applied *)
    bk_n_emd, bk_n_head,          \* the constructor arguments
    bk_head_size, bk_num_heads,   \* what the constructor built
    bk_x,               \* the shape of the input
    bk_cat,             \* the width of the concatenated head outputs
    bk_out,             \* the shape of the output
    bk_err,             \* where a failure was raised
    bk_pc

modelVars == <<training, params, grad>>
genVars == <<seed, idx, max_new_tokens, gen_i, idx_cond, gen_T, gen_ret, gen_pc>>
cfgVars == <<data, eval_interval, eval_iters>>
loopVars == <<pc, iter, xb, yb, logits, loss, grad_enabled>>
evalVars == <<split, k, losses, out, eval_out>>
runVars == <<run, seed0, first_cfg, first_params>>
trainVars == <<cfgVars, loopVars, evalVars, records, trace, runVars>>
fwVars == <<fw_idx, fw_targets, fw_out, fw_pc>>
hdVars == <<hd_head_size, hd_key, hd_query, hd_value, hd_x1, hd_x2, hd_t, hd_res1, hd_res2, hd_pc>>
bkVars == <<bk_n_emd, bk_n_head, bk_head_size, bk_num_heads, bk_x, bk_cat, bk_out, bk_err, bk_pc>>
unitVars == <<fwVars, hdVars, bkVars>>
vars == <<modelVars, rng, genVars, trainVars, unitVars>>

(***************************************************************************)
(* The parts of the program a specification does not exercise stay in the  *)
(* states below.  ModelIdle is the model as constructed at line 188: in    *)
(* training mode, no optimizer step applied, no gradient accumulated.      *)
(***************************************************************************)
ModelIdle ==
    /\ training = TRUE
    /\ params = <<>>
    /\ grad = {}
    /\ rng = 0

TrainIdle ==
    /\ data = <<>>
    /\ eval_interval = 1
    /\ eval_iters = 1
    /\ pc = "idle"
    /\ iter = 0
    /\ xb = None /\ yb = None /\ logits = None /\ loss = None
    /\ grad_enabled = TRUE
    /\ split = None /\ k = 0 /\ losses = <<>> /\ out = <<>> /\ eval_out = None
    /\ records = <<>>
    /\ trace = <<>>
    /\ run = 1 /\ seed0 = 0 /\ first_cfg = None /\ first_params = None

FwIdle == fw_idx = <<>> /\ fw_targets = None /\ fw_out = None /\ fw_pc = "idle"

HdIdle ==
    /\ hd_head_size = 0 /\ hd_key = <<>> /\ hd_query = <<>> /\ hd_value = <<>>
    /\ hd_x1 = <<>> /\ hd_x2 = <<>> /\ hd_t = 0 /\ hd_res1 = None /\ hd_res2 = None
    /\ hd_pc = "idle"

BkIdle ==
    /\ bk_n_emd = 0 /\ bk_n_head = 0 /\ bk_head_size = 0 /\ bk_num_heads = 0
    /\ bk_x = <<>> /\ bk_cat = 0 /\ bk_out = None /\ bk_err = "" /\ bk_pc = "idle"

GenIdle ==
    /\ seed = <<>> /\ idx = <<>> /\ max_new_tokens = 0 /\ gen_i = 0
    /\ idx_cond = <<>> /\ gen_T = 0 /\ gen_ret = None /\ gen_pc = "idle"

(***************************************************************************)
(* The global generator seeded at line 18, as a linear congruential        *)
(* generator: a state, a deterministic successor, and torch.randint(high,  *)
(* (count,)) reading count successive states modulo high.                  *)
(***************************************************************************)
RngNext(g) == (5 * g + 3) % RngMod

RECURSIVE RngAfter(_, _)
RngAfter(g, count) == IF count = 0 THEN g ELSE RngAfter(RngNext(g), count - 1)

GeneratorNotAdvanced(g, count) == g

GeneratorAfter(g, count) == RngAfter(g, count)

RandintWholeSplit(g, high, count) == [b \in 1..count |-> RngAfter(g, b) % (high + block_size)]

randint(g, high, count) == [b \in 1..count |-> RngAfter(g, b) % high]

(***************************************************************************)
(* The corpus and its splits, lines 36-39.  The corpus is one of two       *)
(* patterns: the shortest whose validation split holds a window (it holds  *)
(* exactly one), and a longer one.                                         *)
(***************************************************************************)
Corpora ==
    {[i \in 1..(10 * block_size + 1) |-> i % 2],
     [i \in 1..(10 * block_size + 12) |-> IF i % 3 = 0 THEN 1 ELSE 0]}

n == (9 * Len(data)) \div 10          \* int(0.9*len(data))
train_data == PySlice(data, 0, n)     \* data[:n]
val_data == PySliceFrom(data, n)      \* data[n:]

(***************************************************************************)
(* get_batch, lines 42-49.  The result carries the offsets drawn and the   *)
(* generator state the call leaves; torch.stack needs rows of one length.  *)
(***************************************************************************)
get_batch(which, g) ==
    LET d == IF which = "train" THEN train_data ELSE val_data
        high == Len(d) - block_size
        ix == randint(g, high, batch_size)
        x == [b \in 1..batch_size |-> PySlice(d, ix[b], ix[b] + block_size)]
        y == [b \in 1..batch_size |-> PySlice(d, ix[b] + 1, ix[b] + block_size + 1)]
    IN  [ok |-> /\ high > 0
                /\ \A b \in 1..batch_size : Len(x[b]) = Len(x[1]) /\ Len(y[b]) = Len(y[1]),
         split |-> which, ix |-> ix, x |-> x, y |-> y,
         rng |-> GeneratorAfter(g, batch_size)]

Event(op, detail) ==
    [op |-> op, in_eval |-> (pc \in {"eval_batch", "eval_return"}),
     training |-> training, grad_enabled |-> grad_enabled, detail |-> detail]

(***************************************************************************)
(* Head, lines 65-86, on one batch element: x is a sequence of T vectors   *)
(* of width n_embd, a weight matrix is a sequence of head_size rows.  The  *)
(* arithmetic is on integers: softmax's exp(c * r), c = head_size^-0.5 > 0,*)
(* is replaced by 2^r, which like it is positive and increasing, and 0 for *)
(* -inf; attention weights and outputs are kept as numerators over the row *)
(* sum, so two outputs are equal when they are equal as fractions.         *)
(***************************************************************************)
RECURSIVE SumOver(_, _)
SumOver(f, count) == IF count = 0 THEN 0 ELSE f[count] + SumOver(f, count - 1)

Dot(a, b) == SumOver([d \in 1..Len(a) |-> a[d] * b[d]], Len(a))

(* nn.Linear(n_embd, head_size, bias=False) applied to one vector *)
Linear(W, v) == [r \in 1..Len(W) |-> Dot(W[r], v)]

TrilAllOnes(i, j) == 1

(* torch.tril(torch.ones(block_size, block_size)), line 73 *)
tril(i, j) == IF j <= i THEN 1 ELSE 0

Finite(r) == [masked |-> FALSE, score |-> r]
NegInf == [masked |-> TRUE, score |-> 0]

(* The registered buffer: block_size rows of block_size entries. *)
TrilBuffer == [i \in 1..block_size |-> [j \in 1..block_size |-> tril(i, j)]]

(* self.tril[:T, :T] *)
TrilSlice(T) ==
    LET rows == PySlice(TrilBuffer, 0, T)
    IN  [t \in 1..Len(rows) |-> PySlice(rows[t], 0, T)]

(* wei.masked_fill(self.tril[:T, :T] == 0, float('-inf')), line 81 *)
MaskedFill(raw, T) ==
    LET mask == TrilSlice(T)
    IN  [t \in 1..T |-> [s \in 1..T |->
            IF mask[t][s] = 0 THEN NegInf ELSE Finite(raw[t][s])]]

MinOf(S) == CHOOSE m \in S : \A o \in S : m <= o

(* F.softmax(wei, dim=-1), line 82: per row, numerators and their sum *)
Softmax(wei, T) ==
    LET lo == MinOf({wei[t][s].score : t \in 1..T, s \in 1..T})
        e == [t \in 1..T |-> [s \in 1..T |->
                 IF wei[t][s].masked THEN 0 ELSE 2 ^ (wei[t][s].score - lo)]]
    IN  [num |-> e, den |-> [t \in 1..T |-> SumOver(e[t], T)]]

HeadForward(x, key, query, value) ==
    LET T == Len(x)
        kk == [t \in 1..T |-> Linear(key, x[t])]
        q == [t \in 1..T |-> Linear(query, x[t])]
        raw == [t \in 1..T |-> [s \in 1..T |-> Dot(q[t], kk[s])]]
        wei == Softmax(MaskedFill(raw, T), T)
        v == [t \in 1..T |-> Linear(value, x[t])]
        agg == [t \in 1..T |-> [h \in 1..Len(value) |->
                   SumOver([s \in 1..T |-> wei.num[t][s] * v[s][h]], T)]]
    IN  [wei |-> wei.num, den |-> wei.den, out |-> agg]

(* Inputs and weights the specification enumerates. *)
InVecs ==
    {[d \in 1..n_embd |-> 0],
     [d \in 1..n_embd |-> IF d = 1 THEN 1 ELSE 0],
     [d \in 1..n_embd |-> IF d = 2 THEN 1 ELSE 0]}

WMats(h) ==
    {[r \in 1..h |-> [d \in 1..n_embd |-> IF d = ((r - 1) % n_embd) + 1 THEN 1 ELSE 0]],
     [r \in 1..h |-> [d \in 1..n_embd |-> IF d = ((r - 1) % 2) + 1 THEN 1
                                           ELSE IF d <= 2 THEN -1 ELSE 0]]}

HdInit ==
    /\ hd_head_size \in 1..MaxHeadSize
    /\ hd_key \in WMats(hd_head_size)
    /\ hd_query \in WMats(hd_head_size)
    /\ hd_value \in WMats(hd_head_size)
    /\ hd_x1 \in UNION {[1..T -> InVecs] : T \in 1..block_size}
    /\ hd_x2 = <<>>
    /\ hd_t = 0
    /\ hd_res1 = None
    /\ hd_res2 = None
    /\ hd_pc = "new"

HeadCall ==
    /\ hd_pc = "new"
    /\ hd_res1' = HeadForward(hd_x1, hd_key, hd_query, hd_value)
    /\ hd_pc' = "ran"
    /\ UNCHANGED <<hd_head_size, hd_key, hd_query, hd_value, hd_x1, hd_x2, hd_t, hd_res2,
                   modelVars, rng, genVars, trainVars, fwVars, bkVars>>

(* The same head on an input that agrees with hd_x1 on positions 1..hd_t. *)
HeadCallVariant ==
    /\ hd_pc = "ran"
    /\ \E t \in 1..Len(hd_x1) :
       \E x2 \in [1..Len(hd_x1) -> InVecs] :
          /\ \A pos \in 1..t : x2[pos] = hd_x1[pos]
          /\ hd_t' = t
          /\ hd_x2' = x2
          /\ hd_res2' = HeadForward(x2, hd_key, hd_query, hd_value)
    /\ hd_pc' = "compared"
    /\ UNCHANGED <<hd_head_size, hd_key, hd_query, hd_value, hd_x1, hd_res1,
                   modelVars, rng, genVars, trainVars, fwVars, bkVars>>

SpecHeadInit == ModelIdle /\ TrainIdle /\ GenIdle /\ FwIdle /\ BkIdle /\ HdInit
SpecHeadNext == HeadCall \/ HeadCallVariant
SpecHead == SpecHeadInit /\ [][SpecHeadNext]_vars

(***************************************************************************)
(* Properties of the attention head (checked under SpecHead).              *)
(***************************************************************************)
NoWeightOnFuture(res) ==
    \A t \in DOMAIN res.wei :
        /\ res.den[t] > 0
        /\ \A s \in DOMAIN res.wei[t] :
              /\ res.wei[t][s] >= 0
              /\ s > t => res.wei[t][s] = 0
              /\ s <= t => res.wei[t][s] > 0

SameOutputAt(r1, r2, t) ==
    \A h \in DOMAIN r1.out[t] : r1.out[t][h] * r2.den[t] = r2.out[t][h] * r1.den[t]

(* C4: for every sequence length 1 <= T <= context_length and position t,  *)
(* the attention weight from query position t to any key position s > t is *)
(* zero, so the head's output at t is the same for two inputs that agree   *)
(* on the positions up to t and differ only after t.                       *)
C4_CausalMask ==
    /\ hd_pc \in {"ran", "compared"} => NoWeightOnFuture(hd_res1)
    /\ hd_pc = "compared" =>
          /\ NoWeightOnFuture(hd_res2)
          /\ \A t \in 1..hd_t : SameOutputAt(hd_res1, hd_res2, t)

C4_Witness ==
    /\ hd_pc = "compared"
    /\ Len(hd_x1) = block_size
    /\ hd_t < Len(hd_x1)
    /\ hd_x2[hd_t + 1] # hd_x1[hd_t + 1]
    /\ ~SameOutputAt(hd_res1, hd_res2, hd_t + 1)
    /\ SameOutputAt(hd_res1, hd_res2, hd_t)

(***************************************************************************)
(* Block, lines 116-131, with MultiHeadAttention (88-99) and the shapes of *)
(* Head.forward, for a head count chosen by the caller.  Activations are   *)
(* shapes <<B, T, width>>.                                                 *)
(***************************************************************************)

(* Line 122.  The constructor's first parameter is spelled n_emd, and the  *)
(* body reads the global n_embd.                                           *)
HeadSizeOf(n_emd, n_head) == n_embd \div n_head

(* nn.Linear(n_embd, n_embd) of line 94 applied at line 98: the last       *)
(* dimension of its input has to be its in_features.                       *)
ProjAcceptsAny(width) == TRUE

ProjAccepts(width) == width = n_embd

(* torch.cat of the heads' outputs along the last dimension, line 97 *)
CatWidth(num_heads, head_size) == num_heads * head_size

BkInit ==
    /\ bk_n_emd \in {n_embd, n_embd + 1}
    /\ bk_n_head \in 0..MaxHeads
    /\ bk_x \in {<<B, T, n_embd>> : B \in 1..batch_size, T \in 1..block_size}
    /\ bk_head_size = 0
    /\ bk_num_heads = 0
    /\ bk_cat = 0
    /\ bk_out = None
    /\ bk_err = ""
    /\ bk_pc = "new"

(* Block.__init__: n_embd // n_head raises ZeroDivisionError for n_head = 0; *)
(* otherwise n_head heads of width head_size, the projection, the feed       *)
(* forward net and the two layer norms are built.                            *)
BlockInit ==
    /\ bk_pc = "new"
    /\ IF bk_n_head = 0
       THEN /\ bk_pc' = "error"
            /\ bk_err' = "init"
            /\ UNCHANGED <<bk_head_size, bk_num_heads>>
       ELSE /\ bk_head_size' = HeadSizeOf(bk_n_emd, bk_n_head)
            /\ bk_num_heads' = bk_n_head
            /\ bk_pc' = "built"
            /\ UNCHANGED bk_err
    /\ UNCHANGED <<bk_n_emd, bk_n_head, bk_x, bk_cat, bk_out,
                   modelVars, rng, genVars, trainVars, fwVars, hdVars>>

(* Line 129, x = x + self.sa(self.ln1(x)).  Every head returns (B, T,      *)
(* head_size); with head_size = 0 the scale k.size(-1)**-0.5 of line 80    *)
(* raises ZeroDivisionError.  The outputs are concatenated and projected.  *)
BlockAttention ==
    /\ bk_pc = "built"
    /\ IF bk_head_size = 0
       THEN /\ bk_pc' = "error"
            /\ bk_err' = "head"
            /\ UNCHANGED bk_cat
       ELSE /\ bk_cat' = CatWidth(bk_num_heads, bk_head_size)
            /\ IF ProjAccepts(bk_cat')
               THEN bk_pc' = "attended" /\ UNCHANGED bk_err
               ELSE bk_pc' = "error" /\ bk_err' = "proj"
    /\ UNCHANGED <<bk_n_emd, bk_n_head, bk_head_size, bk_num_heads, bk_x, bk_out,
                   modelVars, rng, genVars, trainVars, fwVars, hdVars>>

(* Lines 130-131, x = x + self.ffwd(self.ln2(x)); return x. *)
BlockFeedForward ==
    /\ bk_pc = "attended"
    /\ bk_out' = bk_x
    /\ bk_pc' = "done"
    /\ UNCHANGED <<bk_n_emd, bk_n_head, bk_head_size, bk_num_heads, bk_x, bk_cat, bk_err,
                   modelVars, rng, genVars, trainVars, fwVars, hdVars>>

SpecBlockInit == ModelIdle /\ TrainIdle /\ GenIdle /\ FwIdle /\ HdIdle /\ BkInit
SpecBlockNext == BlockInit \/ BlockAttention \/ BlockFeedForward
SpecBlock == SpecBlockInit /\ [][SpecBlockNext]_vars

(***************************************************************************)
(* Properties of the transformer block (checked under SpecBlock).          *)
(***************************************************************************)
Divides(n_head) == n_head > 0 /\ n_embd % n_head = 0

CrossEntropy(theta, x, y) == [theta |-> theta, x |-> x, y |-> y]

ForwardNoView(x, targets) ==
    LET B == Len(x)
        T == Len(x[1])
    IN  IF T > block_size
        THEN [ok |-> FALSE, logits |-> <<>>, loss |-> None]
        ELSE IF targets = None
             THEN [ok |-> TRUE, logits |-> <<B, T, vocab_size>>, loss |-> None]
             ELSE [ok |-> TRUE, logits |-> <<B, T, vocab_size>>,
                   loss |-> CrossEntropy(Len(params), x, targets)]

forward(x, targets) ==
    LET B == Len(x)
        T == Len(x[1])
        lm_head == <<B, T, vocab_size>>      \* the shape of self.lm_head(x)
    IN  IF T > block_size
        THEN [ok |-> FALSE, logits |-> <<>>, loss |-> None]
        ELSE IF targets = None
             THEN [ok |-> TRUE, logits |-> lm_head, loss |-> None]
             ELSE IF Len(targets) * Len(targets[1]) # B * T
                  THEN [ok |-> FALSE, logits |-> <<>>, loss |-> None]
                  ELSE [ok |-> TRUE,
                        logits |-> <<lm_head[1] * lm_head[2], lm_head[3]>>,
                        loss |-> CrossEntropy(Len(params), x, targets)]

(***************************************************************************)
(* One call model(idx, targets) of the forward pass, on an index tensor of *)
(* shape (B, T) with T <= block_size and targets of the same shape or None.*)
(***************************************************************************)
IndexTensors == UNION {[1..B -> SeqsOfLen(Vocab, T)] : B \in 1..batch_size, T \in 1..block_size}

FwInit ==
    /\ fw_idx \in IndexTensors
    /\ fw_targets \in {None} \cup [1..Len(fw_idx) -> SeqsOfLen(Vocab, Len(fw_idx[1]))]
    /\ fw_out = None
    /\ fw_pc = "call"

ForwardCall ==
    /\ fw_pc = "call"
    /\ fw_out' = forward(fw_idx, fw_targets)
    /\ fw_pc' = IF fw_out'.ok THEN "returned" ELSE "error"
    /\ UNCHANGED <<fw_idx, fw_targets, modelVars, rng, genVars, trainVars, hdVars, bkVars>>

SpecForwardInit == ModelIdle /\ TrainIdle /\ GenIdle /\ HdIdle /\ BkIdle /\ FwInit
SpecForwardNext == ForwardCall
SpecForward == SpecForwardInit /\ [][SpecForwardNext]_vars

(***************************************************************************)
(* Properties of the forward pass (checked under SpecForward).             *)
(***************************************************************************)

(* C5 as stated: the forward pass on an index tensor of shape (B, T)       *)
(* returns (logits, loss) with logits of shape (B, T, V), and loss present *)
(* exactly when targets are supplied.                                      *)
C5_LogitsAlwaysBTV ==
    fw_pc # "call" =>
        /\ fw_pc = "returned"
        /\ fw_out.logits = <<Len(fw_idx), Len(fw_idx[1]), vocab_size>>
        /\ (fw_out.loss # None) <=> (fw_targets # None)

(* C5 as amended: loss is present exactly when targets are supplied;       *)
(* logits has shape (B, T, V) when targets are omitted and is returned in  *)
(* its flattened shape (B*T, V) when targets are supplied.                 *)
C5_LogitsFlattenedWithTargets ==
    fw_pc # "call" =>
        /\ fw_pc = "returned"
        /\ (fw_out.loss # None) <=> (fw_targets # None)
        /\ fw_targets = None =>
              fw_out.logits = <<Len(fw_idx), Len(fw_idx[1]), vocab_size>>
        /\ fw_targets # None =>
              /\ fw_out.logits = <<Len(fw_idx) * Len(fw_idx[1]), vocab_size>>
              /\ fw_out.loss = CrossEntropy(Len(params), fw_idx, fw_targets)

C5_Witness ==
    /\ fw_pc = "returned"
    /\ fw_targets # None
    /\ Len(fw_idx) >= 2
    /\ Len(fw_idx[1]) >= 2
    /\ Len(fw_out.logits) = 2
    /\ fw_out.logits[1] = Len(fw_idx) * Len(fw_idx[1])

(***************************************************************************)
(* BigramLanguageModel.generate, lines 171-186.                            *)
(***************************************************************************)
CropNone(row) == row

(* idx[:, -block_size:] on one row *)
Crop(row) == PySliceFrom(row, -block_size)

CatOntoWindow(context, window, next) == [b \in DOMAIN context |-> Append(window[b], next[b])]

(* torch.cat((idx, idx_next), dim=1) *)
Cat(context, window, next) == [b \in DOMAIN context |-> Append(context[b], next[b])]

GenInit ==
    /\ \E T0 \in 1..MaxSeedLen : seed \in [1..GenBatch -> SeqsOfLen(Vocab, T0)]
    /\ idx = seed
    /\ max_new_tokens \in 0..MaxNewTokens
    /\ gen_i = 0
    /\ idx_cond = <<>>
    /\ gen_T = 0
    /\ gen_ret = None
    /\ gen_pc = "loop"

(* One iteration of the loop body.  softmax gives every symbol a positive   *)
(* probability and the logits' values are not modelled, so the symbol that  *)
(* torch.multinomial draws for a row may be any; the draw advances the      *)
(* global generator.                                                        *)
GenerateStep ==
    /\ gen_pc = "loop"
    /\ gen_i < max_new_tokens
    /\ LET window == [b \in DOMAIN idx |-> Crop(idx[b])]
           res == forward(window, None)
       IN  /\ idx_cond' = window
           /\ gen_T' = Len(window[1])
           /\ IF res.ok /\ Len(window[1]) >= 1
              THEN /\ \E idx_next \in [DOMAIN idx -> Vocab] :
                        idx' = Cat(idx, window, idx_next)
                   /\ rng' = GeneratorAfter(rng, Len(idx))
                   /\ gen_i' = gen_i + 1
                   /\ gen_pc' = "loop"
              ELSE /\ gen_pc' = "error"
                   /\ UNCHANGED <<idx, gen_i, rng>>
    /\ UNCHANGED <<seed, max_new_tokens, gen_ret, modelVars, trainVars, unitVars>>

GenerateReturn ==
    /\ gen_pc = "loop"
    /\ gen_i >= max_new_tokens
    /\ gen_ret' = idx
    /\ gen_pc' = "returned"
    /\ UNCHANGED <<seed, idx, max_new_tokens, gen_i, idx_cond, gen_T, modelVars, rng, trainVars, unitVars>>

SpecGenInit == ModelIdle /\ TrainIdle /\ FwIdle /\ HdIdle /\ BkIdle /\ GenInit
SpecGenNext == GenerateStep \/ GenerateReturn
SpecGen == SpecGenInit /\ [][SpecGenNext]_vars

(***************************************************************************)
(* Properties of generate (checked under SpecGen).                         *)
(***************************************************************************)

GenKeepsSeed ==
    \A b \in DOMAIN idx :
        /\ Len(idx[b]) = Len(seed[b]) + gen_i
        /\ SubSeq(idx[b], 1, Len(seed[b])) = seed[b]

GenReturnsAll ==
    gen_pc = "returned" =>
        /\ gen_i = max_new_tokens
        /\ \A b \in DOMAIN seed :
            /\ Len(gen_ret[b]) = Len(seed[b]) + max_new_tokens
            /\ SubSeq(gen_ret[b], 1, Len(seed[b])) = seed[b]

GenGrowsByOne ==
    idx' # idx =>
        /\ gen_i' = gen_i + 1
        /\ \A b \in DOMAIN idx :
            /\ Len(idx'[b]) = Len(idx[b]) + 1
            /\ SubSeq(idx'[b], 1, Len(idx[b])) = idx[b]

(* C1: generate returns, for every seed of length T0 >= 1 and every        *)
(* max_new_tokens = n >= 0, rows of length exactly T0 + n whose first T0   *)
(* symbols are the seed; every loop step lengthens the running context by  *)
(* exactly one symbol and leaves the symbols already present in place.     *)
C1_GenerateAppends == [](GenKeepsSeed /\ GenReturnsAll) /\ [][GenGrowsByOne]_vars

C1_Witness ==
    /\ gen_pc = "returned"
    /\ max_new_tokens = MaxNewTokens
    /\ Len(seed[1]) >= 2
    /\ Len(gen_ret[1]) = Len(seed[1]) + MaxNewTokens
    /\ Len(gen_ret[1]) > block_size + 1

GenWindowIsTail ==
    (gen_pc = "loop" /\ gen_pc' # "returned") =>
        /\ gen_pc' # "error"
        /\ \A b \in DOMAIN idx :
            LET len == Len(idx[b])
                w == Min(len, block_size)
            IN  /\ idx_cond'[b] = SubSeq(idx[b], len - w + 1, len)
                /\ gen_T' = w
                /\ 1 <= w /\ w <= block_size
                /\ SubSeq(idx'[b], 1, len - w) = SubSeq(idx[b], 1, len - w)

(* C2: at every step of generate the window passed to the forward pass is  *)
(* exactly the last min(len(context), context_length) symbols of the       *)
(* running context, so the forward pass sees 1 <= T <= context_length and  *)
(* never fails on the position table or the mask, while the symbols older  *)
(* than the window stay in the sequence that is returned.                  *)
C2_WindowWithinContext ==
    /\ [][GenWindowIsTail]_vars
    /\ [](gen_pc # "error" /\ gen_T <= block_size /\ (gen_i > 0 => gen_T >= 1))

C2_Witness ==
    /\ gen_pc = "returned"
    /\ Len(seed[1]) > block_size
    /\ gen_i >= 2
    /\ gen_T = block_size
    /\ Len(idx_cond[1]) < Len(gen_ret[1]) - 1
    /\ SubSeq(gen_ret[1], 1, Len(seed[1])) = seed[1]

(***************************************************************************)
(* The script from line 188: model and optimizer are constructed, the      *)
(* generator is in some state, and the loop of line 194 is at its head.    *)
(***************************************************************************)
TrainInit ==
    /\ training = TRUE
    /\ params = <<>>
    /\ grad = {}
    /\ rng \in 0..(RngMod - 1)
    /\ seed0 = rng
    /\ data \in Corpora
    /\ eval_interval \in 1..MaxEvalInterval
    /\ eval_iters \in 1..MaxEvalIters
    /\ pc = "for"
    /\ iter = 0
    /\ xb = None /\ yb = None /\ logits = None /\ loss = None
    /\ grad_enabled = TRUE
    /\ split = None /\ k = 0 /\ losses = <<>> /\ out = <<>> /\ eval_out = None
    /\ records = <<>>
    /\ trace = <<>>
    /\ run = 1 /\ first_cfg = None /\ first_params = None

(* Lines 194 and 197: the loop head and the test for an evaluation pass. *)
EvalDueNever(i) == FALSE

EvalDue(i) == i % eval_interval = 0

LoopHead ==
    /\ pc = "for"
    /\ pc' = IF iter < max_iters
             THEN IF EvalDue(iter) THEN "estimate_loss" ELSE "get_batch"
             ELSE "done"
    /\ trace' = <<>>
    /\ UNCHANGED <<modelVars, rng, genVars, unitVars, cfgVars, iter, xb, yb, logits, loss,
                   grad_enabled, evalVars, records, runVars>>

(* estimate_loss, lines 51-56: no_grad is entered, out = {}, model.eval(), *)
(* and the first split's losses are zeroed.                                *)
EvalMode == FALSE

EstimateLossEnter ==
    /\ pc = "estimate_loss"
    /\ grad_enabled' = FALSE
    /\ out' = <<>>
    /\ training' = EvalMode
    /\ split' = "train"
    /\ losses' = [j \in 1..eval_iters |-> 0]
    /\ k' = 0
    /\ pc' = "eval_batch"
    /\ UNCHANGED <<params, grad, rng, genVars, unitVars, cfgVars, iter, xb, yb, logits, loss,
                   eval_out, records, trace, runVars>>

(* Lines 57-60: one batch of the current split and its loss. *)
EstimateLossBatch ==
    /\ pc = "eval_batch"
    /\ k < eval_iters
    /\ LET batch == get_batch(split, rng)
           res == forward(batch.x, batch.y)
       IN  /\ rng' = batch.rng
           /\ IF batch.ok /\ res.ok
              THEN /\ losses' = [losses EXCEPT ![k + 1] = res.loss]
                   /\ k' = k + 1
                   /\ pc' = "eval_batch"
              ELSE /\ pc' = "error"
                   /\ UNCHANGED <<losses, k>>
           /\ trace' = trace \o <<Event("get_batch", batch), Event("forward", res)>>
    /\ UNCHANGED <<modelVars, genVars, unitVars, cfgVars, iter, xb, yb, logits, loss,
                   grad_enabled, split, out, eval_out, records, runVars>>

(* Line 61, then the next split of line 55 or the end of the loop. *)
Mean(ls) == [n |-> Len(ls), terms |-> ls]

EstimateLossMean ==
    /\ pc = "eval_batch"
    /\ k >= eval_iters
    /\ out' = Append(out, [split |-> split, mean |-> Mean(losses)])
    /\ IF split = "train"
       THEN /\ split' = "val"
            /\ losses' = [j \in 1..eval_iters |-> 0]
            /\ k' = 0
            /\ pc' = "eval_batch"
       ELSE /\ pc' = "eval_return"
            /\ UNCHANGED <<split, losses, k>>
    /\ UNCHANGED <<modelVars, rng, genVars, unitVars, cfgVars, iter, xb, yb, logits, loss,
                   grad_enabled, eval_out, records, trace, runVars>>

(* Lines 62-63 and the assignment of line 198: model.train(), return out, *)
(* and no_grad is left.                                                    *)
TrainModeNotRestored == training

TrainMode == TRUE

EstimateLossReturn ==
    /\ pc = "eval_return"
    /\ training' = TrainMode
    /\ grad_enabled' = TRUE
    /\ eval_out' = out
    /\ pc' = "print"
    /\ UNCHANGED <<params, grad, rng, genVars, unitVars, cfgVars, iter, xb, yb, logits, loss,
                   split, k, losses, out, records, trace, runVars>>

OutOf(o, which) == (CHOOSE e \in {o[j] : j \in DOMAIN o} : e.split = which).mean

(* Line 199: the evaluation record. *)
PrintRecord ==
    /\ pc = "print"
    /\ records' = Append(records, [iteration |-> iter,
                                   train_loss |-> OutOf(eval_out, "train"),
                                   val_loss |-> OutOf(eval_out, "val")])
    /\ pc' = "get_batch"
    /\ UNCHANGED <<modelVars, rng, genVars, unitVars, cfgVars, iter, xb, yb, logits, loss,
                   grad_enabled, evalVars, trace, runVars>>

(* Line 202. *)
TrainGetBatch ==
    /\ pc = "get_batch"
    /\ LET batch == get_batch("train", rng)
       IN  /\ rng' = batch.rng
           /\ xb' = batch.x
           /\ yb' = batch.y
           /\ pc' = IF batch.ok THEN "forward" ELSE "error"
           /\ trace' = Append(trace, Event("get_batch", batch))
    /\ UNCHANGED <<modelVars, genVars, unitVars, cfgVars, iter, logits, loss, grad_enabled,
                   evalVars, records, runVars>>

(* Line 205. *)
TrainForward ==
    /\ pc = "forward"
    /\ LET res == forward(xb, yb)
       IN  /\ logits' = res.logits
           /\ loss' = res.loss
           /\ pc' = IF res.ok THEN "zero_grad" ELSE "error"
           /\ trace' = Append(trace, Event("forward", res))
    /\ UNCHANGED <<modelVars, rng, genVars, unitVars, cfgVars, iter, xb, yb, grad_enabled,
                   evalVars, records, runVars>>

(* Line 206: optimizer.zero_grad(set_to_none=True). *)
GradKept == grad

GradCleared == {}

ZeroGrad ==
    /\ pc = "zero_grad"
    /\ grad' = GradCleared
    /\ pc' = "backward"
    /\ trace' = Append(trace, Event("zero_grad", None))
    /\ UNCHANGED <<training, params, rng, genVars, unitVars, cfgVars, iter, xb, yb, logits, loss,
                   grad_enabled, evalVars, records, runVars>>

(* Line 207: loss.backward() adds the loss's gradient to the .grad fields. *)
Backward ==
    /\ pc = "backward"
    /\ grad' = grad \cup {[iter |-> iter, loss |-> loss]}
    /\ pc' = "step"
    /\ trace' = Append(trace, Event("backward", loss))
    /\ UNCHANGED <<training, params, rng, genVars, unitVars, cfgVars, iter, xb, yb, logits, loss,
                   grad_enabled, evalVars, records, runVars>>

(* Line 208: optimizer.step() updates the parameters from the .grad fields; *)
(* the loop variable then advances.                                         *)
OptimizerStep ==
    /\ pc = "step"
    /\ params' = Append(params, grad)
    /\ iter' = iter + 1
    /\ pc' = "for"
    /\ trace' = Append(trace, Event("step", grad))
    /\ UNCHANGED <<training, grad, rng, genVars, unitVars, cfgVars, xb, yb, logits, loss,
                   grad_enabled, evalVars, records, runVars>>

(***************************************************************************)
(* The script is executed a second time: the same corpus and the same seed *)
(* (line 18), eval_interval and eval_iters possibly set to other values.   *)
(***************************************************************************)
Rerun ==
    /\ pc = "done"
    /\ run = 1
    /\ run' = 2
    /\ first_cfg' = <<eval_interval, eval_iters>>
    /\ first_params' = params
    /\ eval_interval' \in 1..MaxEvalInterval
    /\ eval_iters' \in 1..MaxEvalIters
    /\ rng' = seed0
    /\ training' = TRUE
    /\ params' = <<>>
    /\ grad' = {}
    /\ pc' = "for"
    /\ iter' = 0
    /\ xb' = None /\ yb' = None /\ logits' = None /\ loss' = None
    /\ grad_enabled' = TRUE
    /\ split' = None /\ k' = 0 /\ losses' = <<>> /\ out' = <<>> /\ eval_out' = None
    /\ records' = <<>>
    /\ trace' = <<>>
    /\ UNCHANGED <<genVars, unitVars, data, seed0>>

SpecTrainInit == TrainInit /\ GenIdle /\ FwIdle /\ HdIdle /\ BkIdle
SpecTrainNext ==
    \/ LoopHead
    \/ EstimateLossEnter
    \/ EstimateLossBatch
    \/ EstimateLossMean
    \/ EstimateLossReturn
    \/ PrintRecord
    \/ TrainGetBatch
    \/ TrainForward
    \/ ZeroGrad
    \/ Backward
    \/ OptimizerStep
    \/ Rerun
SpecTrain == SpecTrainInit /\ [][SpecTrainNext]_vars

(***************************************************************************)
(* Properties of the script (checked under SpecTrain).                     *)
(***************************************************************************)
SplitOf(which) == IF which = "train" THEN train_data ELSE val_data

GetBatchCalls == {j \in DOMAIN trace : trace[j].op = "get_batch"}

BatchWithinSplit(batch) ==
    LET d == SplitOf(batch.split)
        L == Len(d)
        C == block_size
    IN  L > C =>
          /\ batch.ok
          /\ Len(batch.ix) = batch_size
          /\ Len(batch.x) = batch_size
          /\ Len(batch.y) = batch_size
          /\ \A r \in 1..batch_size :
                /\ 0 <= batch.ix[r]
                /\ batch.ix[r] < L - C
                /\ batch.ix[r] + C <= L - 1
                /\ Len(batch.x[r]) = C
                /\ Len(batch.y[r]) = C
                /\ \A t \in 0..(C - 1) :
                      /\ batch.x[r][t + 1] = d[batch.ix[r] + t + 1]
                      /\ batch.y[r][t + 1] = d[batch.ix[r] + t + 1 + 1]

(* C3: for a split of length L > C every call of get_batch draws B start   *)
(* offsets i with 0 <= i < L - C and returns rows x, y of length exactly C *)
(* with x[t] = split[i+t] and y[t] = split[i+t+1]; the largest index read, *)
(* i + C, is at most L - 1, and the split is left unchanged.  (Sequences   *)
(* are indexed from 1 here, hence the + 1.)                                *)
C3_BatchWindowsInsideSplit ==
    /\ [](Len(train_data) > block_size /\ Len(val_data) > block_size
          /\ \A j \in GetBatchCalls : BatchWithinSplit(trace[j].detail))
    /\ [][data' = data]_vars

C3_Witness ==
    \E i, j \in GetBatchCalls :
        /\ trace[i].detail.split = "train"
        /\ trace[i].detail.ix[1] = Len(train_data) - block_size - 1
        /\ trace[i].detail.ix[1] # trace[i].detail.ix[batch_size]
        /\ trace[j].detail.split = "val"
        /\ trace[j].detail.ix[1] + block_size = Len(val_data) - 1

TrainingOps == <<"get_batch", "forward", "zero_grad", "backward", "step">>

TrainingPcs == {"get_batch", "forward", "zero_grad", "backward", "step"}

IsTrainingCall(e) == ~e.in_eval

(* How many of the five operations the current iteration has performed. *)
OpsDone ==
    CASE pc = "forward" -> 1
      [] pc = "zero_grad" -> 2
      [] pc = "backward" -> 3
      [] pc = "step" -> 4
      [] pc = "for" /\ iter > 0 -> 5
      [] OTHER -> 0

IterationInOrder ==
    LET ops == SelectSeq(trace, IsTrainingCall)
    IN  /\ Len(ops) = OpsDone
        /\ \A j \in 1..Len(ops) : ops[j].op = TrainingOps[j]
        /\ Len(ops) >= 1 => ops[1].detail.split = "train"
        /\ Len(ops) >= 2 =>
              /\ ops[2].detail.loss = CrossEntropy(Len(params) - (IF pc = "for" THEN 1 ELSE 0),
                                                   ops[1].detail.x, ops[1].detail.y)
              /\ ops[2].detail.loss # None

StepUsesOwnGradient ==
    /\ Len(params) = iter
    /\ \A i \in 1..Len(params) :
          /\ Cardinality(params[i]) = 1
          /\ \A g \in params[i] : g.iter = i - 1 /\ g.loss.theta = i - 1
    /\ pc = "step" => grad = {[iter |-> iter, loss |-> loss]}

(* C6: every iteration 0..max_iters-1 performs, in this order, exactly one *)
(* training-batch sample, one forward pass with targets, one gradient      *)
(* clear, one back-propagation and one optimizer step; the clear precedes  *)
(* the back-propagation, so each optimizer step applies only the gradient  *)
(* of its own iteration; the loop ends after exactly max_iters steps.      *)
C6_IterationOrder ==
    /\ IterationInOrder
    /\ StepUsesOwnGradient
    /\ iter <= max_iters
    /\ pc \in TrainingPcs => iter < max_iters
    /\ pc = "done" => iter = max_iters /\ Len(params) = max_iters
    /\ pc # "error"

C6_Witness ==
    /\ pc = "done"
    /\ Len(params) = max_iters
    /\ max_iters >= 2
    /\ params[max_iters] = {[iter |-> max_iters - 1, loss |-> loss]}

InEstimateLoss == pc \in {"eval_batch", "eval_return"}

EvalForwards == {j \in DOMAIN trace : trace[j].in_eval /\ trace[j].op = "forward"}

EvalModeInside ==
    /\ InEstimateLoss => (~training /\ ~grad_enabled)
    /\ \A j \in DOMAIN trace :
          /\ trace[j].in_eval => (trace[j].op \in {"get_batch", "forward"} /\ ~trace[j].training)
          /\ trace[j].op = "step" => trace[j].training
    /\ pc = "print" => (training /\ Cardinality(EvalForwards) = 2 * eval_iters)
    /\ pc \in TrainingPcs => training

EvalWritesNothing ==
    /\ (pc = "estimate_loss" \/ InEstimateLoss) => (params' = params /\ grad' = grad)
    /\ (params' # params /\ run' = run) => (pc = "step" /\ training /\ pc' = "for")

(* C7: estimate_loss leaves parameters and accumulated gradients unchanged; *)
(* between its entry and its return there is no optimizer step and no       *)
(* back-propagation, each of its 2 * eval_iters forward passes sees the     *)
(* model in evaluation mode, and training mode is restored on return, so    *)
(* every optimizer step is taken in training mode and is the only writer of *)
(* the parameters.                                                          *)
C7_EstimateLossFrame == []EvalModeInside /\ [][EvalWritesNothing]_vars

C7_Witness ==
    /\ pc = "step"
    /\ training
    /\ iter = eval_interval
    /\ Len(records) = 2
    /\ Cardinality(EvalForwards) = 2 * eval_iters
    /\ eval_iters >= 2

RecordsDue ==
    {i \in 0..(max_iters - 1) :
        /\ i % eval_interval = 0
        /\ (i < iter \/ (i = iter /\ pc \in TrainingPcs))}

MeanOfSplit(m, which, i) ==
    /\ m.n = eval_iters
    /\ Len(m.terms) = eval_iters
    /\ \A t \in 1..eval_iters :
          /\ m.terms[t].theta = i
          /\ \A b \in 1..batch_size :
                \E o \in 0..(Len(SplitOf(which)) - block_size - 1) :
                    /\ m.terms[t].x[b] = SubSeq(SplitOf(which), o + 1, o + block_size)
                    /\ m.terms[t].y[b] = SubSeq(SplitOf(which), o + 2, o + block_size + 1)

RecordsAsDue ==
    /\ Len(records) = Cardinality(RecordsDue)
    /\ \A j \in DOMAIN records :
          /\ records[j].iteration = (j - 1) * eval_interval
          /\ records[j].iteration \in 0..(max_iters - 1)
          /\ j > 1 => records[j].iteration > records[j - 1].iteration
          /\ MeanOfSplit(records[j].train_loss, "train", records[j].iteration)
          /\ MeanOfSplit(records[j].val_loss, "val", records[j].iteration)

IsEvalBatch(e) == e.in_eval /\ e.op = "get_batch"

RecordEmission ==
    (records' # records /\ run' = run) =>
        LET evs == SelectSeq(trace, IsEvalBatch)
            r == records'[Len(records')]
        IN  /\ records' = Append(records, r)
            /\ pc = "print"
            /\ r.iteration = iter
            /\ Len(params) = iter
            /\ Len(evs) = 2 * eval_iters
            /\ \A t \in 1..eval_iters :
                  /\ evs[t].detail.split = "train"
                  /\ evs[eval_iters + t].detail.split = "val"
                  /\ r.train_loss.terms[t] =
                        CrossEntropy(iter, evs[t].detail.x, evs[t].detail.y)
                  /\ r.val_loss.terms[t] =
                        CrossEntropy(iter, evs[eval_iters + t].detail.x,
                                     evs[eval_iters + t].detail.y)

(* C8: an evaluation record {iteration, train_loss, val_loss} is emitted   *)
(* exactly at the iterations i in 0..max_iters-1 with i mod eval_interval  *)
(* = 0 (iteration 0 included) and nowhere else, before the optimizer step  *)
(* of its iteration, so it reports the parameters after exactly i steps;   *)
(* each of its losses is the mean over exactly eval_iters batches of the   *)
(* named split, and the records come in strictly increasing iteration.     *)
C8_RecordsAtIntervals == []RecordsAsDue /\ [][RecordEmission]_vars

C8_Witness ==
    /\ pc = "done"
    /\ eval_interval = 2
    /\ eval_iters = 2
    /\ Len(records) = 2
    /\ records[2].iteration = 2
    /\ records[2].val_loss.terms[2].theta = 2

(* C10 as stated: for a fixed seed and corpus the training batches, and    *)
(* hence the parameter updates, are the same whatever eval_interval and    *)
(* eval_iters are: two executions under one seed end with the same         *)
(* sequence of parameter updates.                                          *)
C10_BatchesIndependentOfEvaluation ==
    (run = 2 /\ pc = "done") => params = first_params

(* The generator draws that precede the training batch of iteration i:     *)
(* batch_size per earlier training batch, and 2 * eval_iters * batch_size  *)
(* per evaluation pass at an iteration 0, eval_interval, ... up to i.      *)
DrawsBefore(i) == batch_size * (i + 2 * eval_iters * ((i \div eval_interval) + 1))

TrainingBatchAtPosition ==
    pc = "forward" =>
        LET g == RngAfter(seed0, DrawsBefore(iter))
            high == Len(train_data) - block_size
        IN  \A b \in 1..batch_size :
                LET o == RngAfter(g, b) % high
                IN  /\ xb[b] = SubSeq(train_data, o + 1, o + block_size)
                    /\ yb[b] = SubSeq(train_data, o + 2, o + block_size + 1)

SameConfigSameUpdates ==
    (run = 2 /\ pc = "done" /\ first_cfg = <<eval_interval, eval_iters>>) =>
        params = first_params

EvaluationLeavesGradients ==
    InEstimateLoss => (params' = params /\ grad' = grad /\ xb' = xb /\ yb' = yb)

(* C10 as amended: loss estimation writes neither gradients nor parameters, *)
(* but it draws its batches from the generator that training uses, so the   *)
(* training batch of iteration i is the one the generator yields after      *)
(* DrawsBefore(i) earlier draws; two executions under one seed make the     *)
(* same parameter updates when they agree on eval_interval and eval_iters.  *)
C10_BatchesFollowGeneratorPosition ==
    /\ [](TrainingBatchAtPosition /\ SameConfigSameUpdates)
    /\ [][EvaluationLeavesGradients]_vars

C10_Witness ==
    /\ run = 2
    /\ pc = "done"
    /\ first_cfg # <<eval_interval, eval_iters>>
    /\ params # first_params
    /\ Len(params) = Len(first_params)

====
